---- MODULE Spec2Model ----
(***************************************************************************)
(* Model of freely's first-run configuration seeding                       *)
(* (src-tauri/src/claude_config.rs) and of the legacy database rename      *)
(* (src-tauri/src/db/main.rs).                                             *)
(*                                                                         *)
(* The filesystem below <data_dir>/.claude is a record: whether the        *)
(* directory exists, and a function from the names of the files that exist *)
(* in it to their content.  Every std::fs call can fail; which calls fail  *)
(* in one invocation is an input of the action (env), chosen by the        *)
(* environment.                                                            *)
(***************************************************************************)
EXTENDS Naturals, Sequences, FiniteSets, TLC

\* ------------------------------------------------------------------ bounds
NumUserTexts == 2      \* distinct texts a user (or the UI) may write
MaxCalls     == 3      \* longest run of consecutive successful init calls tracked
MaxStarts    == 3      \* application starts (one migrate_legacy_db call each)
NumDbImages  == 2      \* distinct database contents

\* --------------------------------------------------------------- constants
DEFAULT_CLAUDE_MD     == "# Freely Assistant ... ## Context ... ## Guidelines ..."
DEFAULT_SETTINGS_JSON == "{ permissions: { allow: [Read, Glob, Grep, Bash(git status), Bash(git diff)], deny: [] } }"

CLAUDE_DIR    == ".claude"
CLAUDE_MD     == "CLAUDE.md"
SETTINGS_JSON == "settings.json"
CANARY_SKILL  == "commands/__test_canary_skill.md"

\* What a write that failed after open(O_CREAT|O_TRUNC) leaves behind.
Truncated == ""

UserTexts == {"# Custom config " \o ToString(i) : i \in 1..NumUserTexts}

FileNames == {CLAUDE_MD, SETTINGS_JSON, CANARY_SKILL}

\* The directories the host can resolve app_local_data_dir to (a TempDir in the tests).
DataDirs == {<<"home", "user", ".local", "share", "freely">>, <<"tmp", "tmpdir">>}

\* How one std::fs::write can go: it succeeds, it fails before the file is
\* touched, or it fails after the file was created/truncated.
WriteOutcomes == {"ok", "fail_open", "fail_partial"}

\* The environment of one call: which of the calls the handler makes fail.
Envs == [resolve : BOOLEAN, mkdir : BOOLEAN, write_md : WriteOutcomes,
         write_settings : WriteOutcomes, read : BOOLEAN]

NoFault == [resolve |-> TRUE, mkdir |-> TRUE, write_md |-> "ok",
            write_settings |-> "ok", read |-> TRUE]

VARIABLES dataDir,   \* the data directory of this installation (fixed)
          fs,        \* <dataDir>/.claude: [dir, files]
          last,      \* the last operation: name, input, fs before, env, result, steps
          calls,     \* length of the current run of successful init calls
          first,     \* fs and returned path after the first call of that run
          db,        \* <app_data_dir>: the database files that exist, with content
          dbLast,    \* the last operation on db
          renames,   \* renames performed since pluely.db was last re-created
                     \* or freely.db last deleted by another actor
          starts     \* application starts so far

seederVars   == <<dataDir, fs, last, calls, first>>
migratorVars == <<db, dbLast, renames, starts>>
vars         == <<dataDir, fs, last, calls, first, db, dbLast, renames, starts>>

\* ------------------------------------------------------- filesystem model
EmptyFiles == [n \in {} |-> ""]
NoDir      == [dir |-> FALSE, files |-> EmptyFiles]

\* PathBuf::join with a relative component
Join(path, component) == Append(path, component)

\* Path::exists on <claude_dir>/<name>
Exists(f, name) == f.dir /\ name \in DOMAIN f.files

Put(files, name, content) ==
    [n \in DOMAIN files \cup {name} |-> IF n = name THEN content ELSE files[n]]

Remove(files, name) == [n \in DOMAIN files \ {name} |-> files[n]]

\* Variant: the directory is reset (remove_dir_all, then create_dir_all).
create_dir_all_fresh(f, succeeds) ==
    IF succeeds THEN [ok |-> TRUE, fs |-> [dir |-> TRUE, files |-> EmptyFiles]]
    ELSE [ok |-> FALSE, fs |-> f]

\* std::fs::create_dir_all(claude_dir): ok = the call succeeded
create_dir_all(f, succeeds) ==
    IF f.dir THEN [ok |-> succeeds, fs |-> f]
    ELSE IF succeeds THEN [ok |-> TRUE, fs |-> [dir |-> TRUE, files |-> EmptyFiles]]
    ELSE [ok |-> FALSE, fs |-> f]

\* std::fs::write(claude_dir/name, content)
fs_write(f, name, content, outcome) ==
    IF ~f.dir THEN [ok |-> FALSE, fs |-> f]
    ELSE IF outcome = "ok"
         THEN [ok |-> TRUE, fs |-> [f EXCEPT !.files = Put(f.files, name, content)]]
    ELSE IF outcome = "fail_partial"
         THEN [ok |-> FALSE, fs |-> [f EXCEPT !.files = Put(f.files, name, Truncated)]]
    ELSE [ok |-> FALSE, fs |-> f]

\* std::fs::read_to_string(claude_dir/name)
read_to_string(f, name, succeeds) ==
    IF Exists(f, name) /\ succeeds
    THEN [ok |-> TRUE, text |-> f.files[name]]
    ELSE [ok |-> FALSE, text |-> ""]

\* ----------------------------------------------------------------- results
NoPath == <<>>
OkPath(p)  == [ok |-> TRUE,  path |-> p,      text |-> "", err |-> ""]
OkText(t)  == [ok |-> TRUE,  path |-> NoPath, text |-> t,  err |-> ""]
OkUnit     == [ok |-> TRUE,  path |-> NoPath, text |-> "", err |-> ""]
Err(msg)   == [ok |-> FALSE, path |-> NoPath, text |-> "", err |-> msg]

E_RESOLVE == "Could not resolve app_local_data_dir"
E_MKDIR   == "Failed to create .claude directory"
E_WRITE_MD       == "Failed to write CLAUDE.md"
E_WRITE_SETTINGS == "Failed to write settings.json"
E_READ_MD        == "Failed to read CLAUDE.md"

\* ------------------------------------------------------ the seeder's code
S_MKDIR       == "create_dir_all"
S_CHK_MD      == "exists CLAUDE.md"
S_WR_MD       == "write CLAUDE.md"
S_CHK_SET     == "exists settings.json"
S_WR_SET      == "write settings.json"

\* Variant: the existence check is missing, the default is always written.
seed_overwrite(f, name, content, outcome) ==
    LET w == fs_write(f, name, content, outcome)
    IN  [ok |-> w.ok, fs |-> w.fs,
         steps |-> IF Exists(f, name) THEN <<"exists " \o name>>
                   ELSE <<"exists " \o name, "write " \o name>>]

\* Variant: the default is appended (OpenOptions::append) on every call
\* instead of written when the file is absent.
seed_append(f, name, content, outcome) ==
    LET old == IF Exists(f, name) THEN f.files[name] ELSE ""
        w == fs_write(f, name, old \o content, outcome)
    IN  [ok |-> w.ok, fs |-> w.fs,
         steps |-> <<"exists " \o name, "write " \o name>>]

\* Variant: the existence check is inverted (`if path.exists()`).
seed_inverted(f, name, content, outcome) ==
    IF ~Exists(f, name)
    THEN [ok |-> TRUE, fs |-> f, steps |-> <<"exists " \o name>>]
    ELSE LET w == fs_write(f, name, content, outcome)
         IN  [ok |-> w.ok, fs |-> w.fs,
              steps |-> <<"exists " \o name, "write " \o name>>]

\* One resource of init_claude_config_in: `if !path.exists() { write(path,
\* default)? }`, with the filesystem calls it made.
seed(f, name, content, outcome) ==
    IF Exists(f, name)
    THEN [ok |-> TRUE, fs |-> f, steps |-> <<"exists " \o name>>]
    ELSE LET w == fs_write(f, name, content, outcome)
         IN  [ok |-> w.ok, fs |-> w.fs,
              steps |-> <<"exists " \o name, "write " \o name>>]

\* Variant: the result of the CLAUDE.md write is looked at only after
\* settings.json has been seeded.
init_claude_config_in_late_check(data_dir, f, env) ==
    LET claude_dir == Join(data_dir, CLAUDE_DIR)
        d == create_dir_all(f, env.mkdir)
        m == seed(d.fs, CLAUDE_MD, DEFAULT_CLAUDE_MD, env.write_md)
        s == seed(m.fs, SETTINGS_JSON, DEFAULT_SETTINGS_JSON, env.write_settings)
    IN  IF ~d.ok
        THEN [fs |-> d.fs, result |-> Err(E_MKDIR), steps |-> <<S_MKDIR>>]
        ELSE IF ~s.ok
        THEN [fs |-> s.fs, result |-> Err(E_WRITE_SETTINGS),
              steps |-> <<S_MKDIR>> \o m.steps \o s.steps]
        ELSE IF ~m.ok
        THEN [fs |-> s.fs, result |-> Err(E_WRITE_MD),
              steps |-> <<S_MKDIR>> \o m.steps \o s.steps]
        ELSE [fs |-> s.fs, result |-> OkPath(claude_dir),
              steps |-> <<S_MKDIR>> \o m.steps \o s.steps]

\* init_claude_config_in(data_dir): the filesystem it leaves, the value it
\* returns, and the filesystem calls it made, in order.
init_claude_config_in(data_dir, f, env) ==
    LET claude_dir == Join(data_dir, CLAUDE_DIR)
        d == create_dir_all(f, env.mkdir)
        m == seed(d.fs, CLAUDE_MD, DEFAULT_CLAUDE_MD, env.write_md)
        s == seed(m.fs, SETTINGS_JSON, DEFAULT_SETTINGS_JSON, env.write_settings)
    IN  IF ~d.ok
        THEN [fs |-> d.fs, result |-> Err(E_MKDIR), steps |-> <<S_MKDIR>>]
        ELSE IF ~m.ok
        THEN [fs |-> m.fs, result |-> Err(E_WRITE_MD),
              steps |-> <<S_MKDIR>> \o m.steps]
        ELSE IF ~s.ok
        THEN [fs |-> s.fs, result |-> Err(E_WRITE_SETTINGS),
              steps |-> <<S_MKDIR>> \o m.steps \o s.steps]
        ELSE [fs |-> s.fs, result |-> OkPath(claude_dir),
              steps |-> <<S_MKDIR>> \o m.steps \o s.steps]

\* init_claude_config(app)
init_claude_config(data_dir, f, env) ==
    IF ~env.resolve
    THEN [fs |-> f, result |-> Err(E_RESOLVE), steps |-> <<>>]
    ELSE init_claude_config_in(data_dir, f, env)

\* Variant: a missing CLAUDE.md reads as the default (unwrap_or).
get_claude_md_or_default(f, env) ==
    IF ~env.resolve
    THEN [fs |-> f, result |-> Err(E_RESOLVE), steps |-> <<>>]
    ELSE LET r == read_to_string(f, CLAUDE_MD, env.read)
         IN  [fs |-> f,
              result |-> IF r.ok THEN OkText(r.text) ELSE OkText(DEFAULT_CLAUDE_MD),
              steps |-> <<"read CLAUDE.md">>]

\* get_claude_md(app)
get_claude_md(f, env) ==
    IF ~env.resolve
    THEN [fs |-> f, result |-> Err(E_RESOLVE), steps |-> <<>>]
    ELSE LET r == read_to_string(f, CLAUDE_MD, env.read)
         IN  [fs |-> f,
              result |-> IF r.ok THEN OkText(r.text) ELSE Err(E_READ_MD),
              steps |-> <<"read CLAUDE.md">>]

\* Variant: the content is written only when CLAUDE.md is absent.
update_claude_md_if_absent(f, content, env) ==
    IF ~env.resolve
    THEN [fs |-> f, result |-> Err(E_RESOLVE), steps |-> <<>>]
    ELSE LET d == create_dir_all(f, env.mkdir)
         IN  IF ~d.ok
             THEN [fs |-> d.fs, result |-> Err(E_MKDIR), steps |-> <<S_MKDIR>>]
             ELSE LET w == seed(d.fs, CLAUDE_MD, content, env.write_md)
                  IN  [fs |-> w.fs,
                       result |-> IF w.ok THEN OkUnit ELSE Err(E_WRITE_MD),
                       steps |-> <<S_MKDIR>> \o w.steps]

\* update_claude_md(app, content)
update_claude_md(f, content, env) ==
    IF ~env.resolve
    THEN [fs |-> f, result |-> Err(E_RESOLVE), steps |-> <<>>]
    ELSE LET d == create_dir_all(f, env.mkdir)
         IN  IF ~d.ok
             THEN [fs |-> d.fs, result |-> Err(E_MKDIR), steps |-> <<S_MKDIR>>]
             ELSE LET w == fs_write(d.fs, CLAUDE_MD, content, env.write_md)
                  IN  [fs |-> w.fs,
                       result |-> IF w.ok THEN OkUnit ELSE Err(E_WRITE_MD),
                       steps |-> <<S_MKDIR, S_WR_MD>>]

\* ---------------------------------------------------- the migrator's code
PLUELY_DB == "pluely.db"
FREELY_DB == "freely.db"
DbNames   == {PLUELY_DB, FREELY_DB}
DbImages  == {"sqlite image " \o ToString(i) : i \in 1..NumDbImages}

\* The environment of one migrate_legacy_db call.
MigEnvs == [resolve : BOOLEAN, rename : BOOLEAN]

L_NONE     == ""
L_RESOLVE  == "[db] Could not resolve app data directory for legacy migration"
L_MIGRATED == "[db] Migrated pluely.db -> freely.db"
L_FAILED   == "[db] Failed to rename pluely.db -> freely.db"

\* std::fs::rename(from, to): atomic; replaces `to` when it exists; a failed
\* rename changes nothing.
fs_rename(d, from, to, succeeds) ==
    IF from \in DOMAIN d /\ succeeds
    THEN [ok |-> TRUE, db |-> Remove(Put(d, to, d[from]), from)]
    ELSE [ok |-> FALSE, db |-> d]

\* Variant: the guard lacks `!new_path.exists()`.
should_rename_clobber(d) == PLUELY_DB \in DOMAIN d

\* Variant: no guard, rename is called on every start.
should_rename_always(d) == TRUE

\* The guard of the rename: old_path.exists() && !new_path.exists()
should_rename(d) == PLUELY_DB \in DOMAIN d /\ FREELY_DB \notin DOMAIN d

\* Variant: the data directory is unwrapped (expect) instead of matched.
migrate_legacy_db_unwrap(d, env) ==
    IF ~env.resolve
    THEN [db |-> d, outcome |-> "panicked", log |-> L_NONE, attempted |-> FALSE]
    ELSE IF should_rename(d)
         THEN LET r == fs_rename(d, PLUELY_DB, FREELY_DB, env.rename)
              IN  [db |-> r.db, outcome |-> "returned",
                   log |-> IF r.ok THEN L_MIGRATED ELSE L_FAILED,
                   attempted |-> TRUE]
         ELSE [db |-> d, outcome |-> "returned", log |-> L_NONE, attempted |-> FALSE]

\* migrate_legacy_db(app): the files it leaves, how it ends ("returned":
\* it returns (), the only way the code ends), what it logs, and whether it
\* called rename.
migrate_legacy_db(d, env) ==
    IF ~env.resolve
    THEN [db |-> d, outcome |-> "returned", log |-> L_RESOLVE, attempted |-> FALSE]
    ELSE IF should_rename(d)
         THEN LET r == fs_rename(d, PLUELY_DB, FREELY_DB, env.rename)
              IN  [db |-> r.db, outcome |-> "returned",
                   log |-> IF r.ok THEN L_MIGRATED ELSE L_FAILED,
                   attempted |-> TRUE]
         ELSE [db |-> d, outcome |-> "returned", log |-> L_NONE, attempted |-> FALSE]

\* ------------------------------------------------------------------ state
Record(op, arg, env, out) ==
    [op |-> op, arg |-> arg, pre |-> fs, env |-> env,
     result |-> out.result, steps |-> out.steps]

NoFirst == [fs |-> NoDir, path |-> NoPath]

\* The run of consecutive successful init calls: extended by a successful
\* init call, ended by anything else.
Extend(out) ==
    IF out.result.ok
    THEN /\ calls' = calls + 1
         /\ first' = IF calls = 0 THEN [fs |-> out.fs, path |-> out.result.path]
                     ELSE first
    ELSE /\ calls' = 0
         /\ first' = NoFirst

EndRun == calls' = 0 /\ first' = NoFirst

SeederInit ==
    /\ dataDir \in DataDirs
    /\ fs = NoDir
    /\ last = [op |-> "none", arg |-> "", pre |-> NoDir, env |-> NoFault,
               result |-> OkUnit, steps |-> <<>>]
    /\ calls = 0
    /\ first = NoFirst

MigratorInit ==
    /\ db = EmptyFiles
    /\ dbLast = [op |-> "none", arg |-> "", pre |-> EmptyFiles,
                 env |-> [resolve |-> TRUE, rename |-> TRUE],
                 outcome |-> "returned", log |-> L_NONE, attempted |-> FALSE]
    /\ renames = 0
    /\ starts = 0

Init == SeederInit /\ MigratorInit

\* ---------------------------------------------------------------- actions
InitClaudeConfigIn ==
    \E env \in Envs :
        /\ env.resolve /\ env.read
        /\ calls < MaxCalls
        /\ LET out == init_claude_config_in(dataDir, fs, env)
           IN  /\ fs' = out.fs
               /\ last' = Record("init_claude_config_in", "", env, out)
               /\ Extend(out)
        /\ UNCHANGED <<dataDir, migratorVars>>

InitClaudeConfig ==
    \E env \in Envs :
        /\ env.read
        /\ calls < MaxCalls
        /\ LET out == init_claude_config(dataDir, fs, env)
           IN  /\ fs' = out.fs
               /\ last' = Record("init_claude_config", "", env, out)
               /\ Extend(out)
        /\ UNCHANGED <<dataDir, migratorVars>>

GetClaudeMd ==
    \E env \in Envs :
        /\ env.mkdir /\ env.write_md = "ok" /\ env.write_settings = "ok"
        /\ LET out == get_claude_md(fs, env)
           IN  /\ fs' = out.fs
               /\ last' = Record("get_claude_md", "", env, out)
        /\ EndRun
        /\ UNCHANGED <<dataDir, migratorVars>>

UpdateClaudeMd ==
    \E env \in Envs, content \in UserTexts \cup {DEFAULT_CLAUDE_MD} :
        /\ env.read /\ env.write_settings = "ok"
        /\ LET out == update_claude_md(fs, content, env)
           IN  /\ fs' = out.fs
               /\ last' = Record("update_claude_md", content, env, out)
        /\ EndRun
        /\ UNCHANGED <<dataDir, migratorVars>>

\* A user (or another program) edits, deletes or creates a file in .claude,
\* or removes the directory.
UserOut(f) == [fs |-> f, result |-> OkUnit, steps |-> <<>>]

UserWrite ==
    \E name \in FileNames, content \in UserTexts :
        /\ fs' = [dir |-> TRUE, files |-> Put(fs.files, name, content)]
        /\ last' = Record("user_write", name, NoFault, UserOut(fs'))
        /\ EndRun
        /\ UNCHANGED <<dataDir, migratorVars>>

UserDelete ==
    \E name \in DOMAIN fs.files :
        /\ fs' = [fs EXCEPT !.files = Remove(fs.files, name)]
        /\ last' = Record("user_delete", name, NoFault, UserOut(fs'))
        /\ EndRun
        /\ UNCHANGED <<dataDir, migratorVars>>

UserRemoveDir ==
    /\ fs.dir
    /\ fs' = NoDir
    /\ last' = Record("user_remove_dir", "", NoFault, UserOut(fs'))
    /\ EndRun
    /\ UNCHANGED <<dataDir, migratorVars>>

Next ==
    \/ InitClaudeConfigIn
    \/ InitClaudeConfig
    \/ GetClaudeMd
    \/ UpdateClaudeMd
    \/ UserWrite
    \/ UserDelete
    \/ UserRemoveDir

Spec == Init /\ [][Next]_vars

\* One migrate_legacy_db call per application start, before the SQL plugin
\* opens freely.db.
MigrateLegacyDb ==
    \E env \in MigEnvs :
        /\ starts < MaxStarts
        /\ LET out == migrate_legacy_db(db, env)
           IN  /\ db' = out.db
               /\ dbLast' = [op |-> "migrate_legacy_db", arg |-> "", pre |-> db,
                             env |-> env, outcome |-> out.outcome,
                             log |-> out.log, attempted |-> out.attempted]
               /\ renames' = IF out.log = L_MIGRATED THEN renames + 1 ELSE renames
        /\ starts' = starts + 1
        /\ UNCHANGED seederVars

ExtRecord(op, name) ==
    [op |-> op, arg |-> name, pre |-> db, env |-> [resolve |-> TRUE, rename |-> TRUE],
     outcome |-> "returned", log |-> L_NONE, attempted |-> FALSE]

\* Another actor (the SQL plugin creating freely.db, an older build writing
\* pluely.db, a user restoring a backup) creates or rewrites a database file.
ExternalWrite ==
    \E name \in DbNames, image \in DbImages :
        /\ db' = Put(db, name, image)
        /\ dbLast' = ExtRecord("external_write", name)
        /\ renames' = IF name = PLUELY_DB /\ PLUELY_DB \notin DOMAIN db
                      THEN 0 ELSE renames
        /\ UNCHANGED <<starts, seederVars>>

ExternalDelete ==
    \E name \in DOMAIN db :
        /\ db' = Remove(db, name)
        /\ dbLast' = ExtRecord("external_delete", name)
        /\ renames' = IF name = FREELY_DB THEN 0 ELSE renames
        /\ UNCHANGED <<starts, seederVars>>

MigratorNext ==
    \/ MigrateLegacyDb
    \/ ExternalWrite
    \/ ExternalDelete

MigratorSpec == Init /\ [][MigratorNext]_vars

TypeOK ==
    /\ dataDir \in DataDirs
    /\ fs.dir \in BOOLEAN
    /\ DOMAIN fs.files \subseteq FileNames
    /\ (~fs.dir => fs.files = EmptyFiles)
    /\ calls \in 0..MaxCalls
    /\ DOMAIN db \subseteq DbNames
    /\ starts \in 0..MaxStarts

\* ======================================================= properties: seeder
Resources == {CLAUDE_MD, SETTINGS_JSON}

DefaultOf(name) == IF name = CLAUDE_MD THEN DEFAULT_CLAUDE_MD ELSE DEFAULT_SETTINGS_JSON

InSeq(x, seq) == \E i \in 1..Len(seq) : seq[i] = x

\* the last operation was a call of init_claude_config_in (directly, or
\* through init_claude_config once the data directory resolved)
InitCalled == /\ last.op \in {"init_claude_config_in", "init_claude_config"}
              /\ last.env.resolve

ComponentOps == {"init_claude_config_in", "init_claude_config",
                 "get_claude_md", "update_claude_md"}

\* the last call issued std::fs::write for the resource
WriteIssued(name) == InSeq("write " \o name, last.steps)

\* the last call issued that write and the write failed
WriteFailed(name) ==
    /\ WriteIssued(name)
    /\ (IF name = CLAUDE_MD THEN last.env.write_md ELSE last.env.write_settings) # "ok"

\* the resource has after the call the content it had before
Kept(name) == /\ Exists(fs, name)
              /\ fs.files[name] = last.pre.files[name]

\* the call reached the existence check of the resource
Reached(name) ==
    IF name = CLAUDE_MD THEN last.env.mkdir
    ELSE last.env.mkdir /\ ~WriteFailed(CLAUDE_MD)

\* C1 as stated: in every call of init_claude_config_in, a resource that
\* existed when the call started keeps its content, and the resource is
\* written by the call if and only if it was absent.
C1_AsStated ==
    InitCalled =>
        \A r \in Resources :
            /\ Exists(last.pre, r) => Kept(r)
            /\ WriteIssued(r) <=> ~Exists(last.pre, r)

\* C1 amended: in every call of init_claude_config_in, a resource that
\* existed when the call started keeps its content; the call writes the
\* resource if and only if it was absent and no earlier step of the call
\* failed, so a successful call writes exactly the absent resources, which
\* then hold their default content.
C1_SeedingNeverOverwrites ==
    InitCalled =>
        \A r \in Resources :
            /\ Exists(last.pre, r) => Kept(r)
            /\ WriteIssued(r) <=> (~Exists(last.pre, r) /\ Reached(r))
            /\ last.result.ok =>
                   /\ WriteIssued(r) <=> ~Exists(last.pre, r)
                   /\ ~Exists(last.pre, r) => fs.files[r] = DefaultOf(r)

\* a successful call that found a user-edited CLAUDE.md and no settings.json
C1_Witness ==
    /\ InitCalled /\ last.result.ok
    /\ Exists(last.pre, CLAUDE_MD) /\ last.pre.files[CLAUDE_MD] \in UserTexts
    /\ fs.files[CLAUDE_MD] = last.pre.files[CLAUDE_MD]
    /\ ~Exists(last.pre, SETTINGS_JSON)
    /\ fs.files[SETTINGS_JSON] = DEFAULT_SETTINGS_JSON

\* C2: in a run of n >= 1 consecutive successful init calls with nothing in
\* between, the filesystem after every call of the run is the filesystem
\* after the first call, and every call returns the path the first returned.
C2_Idempotent ==
    calls >= 1 =>
        /\ InitCalled /\ last.result.ok
        /\ fs = first.fs
        /\ last.result.path = first.path
        /\ calls >= 2 => fs = last.pre

\* a second (or later) call of a run whose first call started from a
\* directory that was not in the seeded state
C2_Witness ==
    /\ calls >= 2
    /\ fs = first.fs
    /\ Exists(fs, CLAUDE_MD) /\ Exists(fs, SETTINGS_JSON)

\* C3: init_claude_config_in changes nothing in .claude but the two seeded
\* resources (every other file exists after the call iff it existed before,
\* with the same content), and no operation of the component deletes an
\* existing .claude directory.
C3_Frame ==
    /\ InitCalled =>
           \A n \in FileNames \ Resources :
               /\ Exists(fs, n) <=> Exists(last.pre, n)
               /\ Exists(last.pre, n) => fs.files[n] = last.pre.files[n]
    /\ (last.op \in ComponentOps /\ last.pre.dir) => fs.dir

\* an init call that re-seeded a deleted resource next to a user's skill file
C3_Witness ==
    /\ InitCalled /\ last.result.ok
    /\ Exists(last.pre, CANARY_SKILL)
    /\ Exists(fs, CANARY_SKILL)
    /\ \E r \in Resources : WriteIssued(r)

\* C6: every successful call of init_claude_config_in(dataDir) returns
\* dataDir joined with ".claude"; the directory and both resources exist on
\* return; a call that started with neither resource leaves both defaults.
C6_SuccessfulInit ==
    (InitCalled /\ last.result.ok) =>
        /\ last.result.path = dataDir \o <<".claude">>
        /\ fs.dir
        /\ Exists(fs, CLAUDE_MD) /\ Exists(fs, SETTINGS_JSON)
        /\ (~Exists(last.pre, CLAUDE_MD) /\ ~Exists(last.pre, SETTINGS_JSON)) =>
               /\ fs.files[CLAUDE_MD] = DEFAULT_CLAUDE_MD
               /\ fs.files[SETTINGS_JSON] = DEFAULT_SETTINGS_JSON

\* a successful first run: no .claude directory before, both defaults after
C6_Witness ==
    /\ InitCalled /\ last.result.ok
    /\ ~last.pre.dir
    /\ fs.files[CLAUDE_MD] = DEFAULT_CLAUDE_MD
    /\ fs.files[SETTINGS_JSON] = DEFAULT_SETTINGS_JSON
    /\ Len(last.result.path) = Len(dataDir) + 1

SameEntry(f, g, name) ==
    /\ Exists(f, name) <=> Exists(g, name)
    /\ Exists(f, name) => f.files[name] = g.files[name]

\* C7: a successful update_claude_md(c), from any prior state, leaves .claude
\* existing and CLAUDE.md equal to c and leaves settings.json as it was
\* (absent stays absent); a get_claude_md that follows it and whose own
\* path resolution and read do not fail returns c.
C7_UpdateOverwrites ==
    [][ /\ (last'.op = "update_claude_md" /\ last'.result.ok) =>
               /\ fs'.dir
               /\ Exists(fs', CLAUDE_MD) /\ fs'.files[CLAUDE_MD] = last'.arg
               /\ SameEntry(fs', fs, SETTINGS_JSON)
        /\ (/\ last.op = "update_claude_md" /\ last.result.ok
            /\ last'.op = "get_claude_md"
            /\ last'.env.resolve /\ last'.env.read) =>
               last'.result = OkText(last.arg)
      ]_vars

\* update_claude_md re-created a removed directory and wrote c, without
\* creating settings.json
C7_Witness ==
    /\ last.op = "update_claude_md" /\ last.result.ok
    /\ ~last.pre.dir
    /\ fs.dir /\ fs.files[CLAUDE_MD] = last.arg
    /\ ~Exists(fs, SETTINGS_JSON)

\* C8: the seeder operations return an error whenever one of their steps
\* fails (path resolution, directory creation, a write they issue, the
\* read); get_claude_md returns an error when CLAUDE.md does not exist, and
\* never changes the filesystem (creates no directory, seeds no default).
C8_FailuresSurface ==
    /\ (last.op \in {"init_claude_config", "get_claude_md", "update_claude_md"}
            /\ ~last.env.resolve) =>
           /\ ~last.result.ok /\ last.result.err = E_RESOLVE
           /\ fs = last.pre
    /\ ((InitCalled \/ last.op = "update_claude_md")
            /\ last.env.resolve /\ ~last.env.mkdir) =>
           ~last.result.ok /\ last.result.err = E_MKDIR
    /\ ((InitCalled \/ last.op = "update_claude_md")
            /\ \E r \in Resources : WriteFailed(r)) =>
           ~last.result.ok /\ last.result.err \in {E_WRITE_MD, E_WRITE_SETTINGS}
    /\ last.op = "get_claude_md" =>
           /\ fs = last.pre
           /\ (~last.env.read \/ ~Exists(last.pre, CLAUDE_MD)) => ~last.result.ok
           /\ (last.env.resolve /\ ~Exists(last.pre, CLAUDE_MD)) =>
                  last.result.err = E_READ_MD
    /\ last.op \in ComponentOps =>
           (last.result.ok <=> last.result.err = "")

\* get_claude_md on an installation that has no .claude directory
C8_Witness ==
    /\ last.op = "get_claude_md"
    /\ last.env.resolve /\ last.env.read
    /\ ~last.pre.dir
    /\ ~last.result.ok /\ last.result.err = E_READ_MD
    /\ fs = NoDir

StepsFor(name) ==
    IF Exists(last.pre, name)
    THEN <<"exists " \o name>>
    ELSE <<"exists " \o name, "write " \o name>>

\* C10: init_claude_config_in issues create_dir_all, then the check and
\* write of CLAUDE.md, then the check and write of settings.json, and stops
\* at the first step that fails: a failed create_dir_all leaves the
\* filesystem as it was; after a failed write of CLAUDE.md, settings.json is
\* neither checked nor written; after a failed write of settings.json the
\* directory and the CLAUDE.md seeded in the same call remain; a successful
\* call writes exactly the resources that were missing.
C10_OrderedStopAtFirstFailure ==
    InitCalled =>
        /\ ~last.env.mkdir =>
               /\ last.steps = <<S_MKDIR>>
               /\ fs = last.pre
               /\ ~last.result.ok
        /\ (last.env.mkdir /\ WriteFailed(CLAUDE_MD)) =>
               /\ last.steps = <<S_MKDIR>> \o StepsFor(CLAUDE_MD)
               /\ SameEntry(fs, last.pre, SETTINGS_JSON)
               /\ last.result = Err(E_WRITE_MD)
        /\ (last.env.mkdir /\ ~WriteFailed(CLAUDE_MD)) =>
               last.steps = <<S_MKDIR>> \o StepsFor(CLAUDE_MD) \o StepsFor(SETTINGS_JSON)
        /\ WriteFailed(SETTINGS_JSON) =>
               /\ last.result = Err(E_WRITE_SETTINGS)
               /\ fs.dir /\ Exists(fs, CLAUDE_MD)
               /\ ~Exists(last.pre, CLAUDE_MD) =>
                      fs.files[CLAUDE_MD] = DEFAULT_CLAUDE_MD
        /\ last.result.ok =>
               \A r \in Resources :
                   /\ WriteIssued(r) <=> ~Exists(last.pre, r)
                   /\ Exists(fs, r)

\* first run: the directory was created and CLAUDE.md seeded, then the write
\* of settings.json failed
C10_Witness ==
    /\ InitCalled
    /\ ~last.pre.dir
    /\ WriteFailed(SETTINGS_JSON)
    /\ ~last.result.ok
    /\ fs.dir /\ fs.files[CLAUDE_MD] = DEFAULT_CLAUDE_MD

\* ===================================================== properties: migrator
Migrated == dbLast.op = "migrate_legacy_db"

\* the state the call found satisfied the guard
GuardBefore == PLUELY_DB \in DOMAIN dbLast.pre /\ FREELY_DB \notin DOMAIN dbLast.pre

\* freely.db holds what pluely.db held, and pluely.db is gone
Moved == /\ FREELY_DB \in DOMAIN db
         /\ db[FREELY_DB] = dbLast.pre[PLUELY_DB]
         /\ PLUELY_DB \notin DOMAIN db

\* C4 as stated: migrate_legacy_db renames if and only if pluely.db exists
\* and freely.db does not when it is called; then freely.db has pluely.db's
\* content and pluely.db is gone; otherwise the call changes nothing.
C4_AsStated ==
    Migrated =>
        /\ (dbLast.log = L_MIGRATED) <=> GuardBefore
        /\ GuardBefore => Moved
        /\ ~GuardBefore => db = dbLast.pre

\* C4 amended: migrate_legacy_db calls rename if and only if the data
\* directory resolves, pluely.db exists and freely.db does not; when that
\* rename succeeds freely.db has pluely.db's prior content and pluely.db is
\* gone; in every other case (pluely.db absent, both present, resolution or
\* rename failure) the call changes nothing; an existing freely.db is never
\* overwritten.
C4_RenameGuard ==
    Migrated =>
        /\ dbLast.attempted <=> (dbLast.env.resolve /\ GuardBefore)
        /\ (dbLast.log = L_MIGRATED) <=> (dbLast.attempted /\ dbLast.env.rename)
        /\ dbLast.log = L_MIGRATED => Moved
        /\ dbLast.log # L_MIGRATED => db = dbLast.pre
        /\ FREELY_DB \in DOMAIN dbLast.pre =>
               /\ FREELY_DB \in DOMAIN db
               /\ db[FREELY_DB] = dbLast.pre[FREELY_DB]

\* a call that renamed: freely.db now holds what pluely.db held
C4_Witness ==
    /\ Migrated
    /\ GuardBefore
    /\ dbLast.log = L_MIGRATED
    /\ Moved

====
